---------------------------- MODULE Spec2Model ----------------------------
(***************************************************************************)
(* Model of the caption-synthesis pipeline of src/main.py (Edge-TTS Pro):  *)
(* text segmentation, per-segment synthesis with retries, timeline         *)
(* stitching, caption grouping and SRT serialisation.                      *)
(*                                                                         *)
(* Strings are sequences of one-character strings, so that len(), strip(), *)
(* re.split(), slicing and "\n".join() are computed as the code computes   *)
(* them.                                                                   *)
(***************************************************************************)
EXTENDS Integers, Sequences, FiniteSets, TLC

(***************************************************************************)
(* Program constants.                                                      *)
(***************************************************************************)
MaxSegmentChars == 1000
Retries == 2
MaxWords == 6
MinWordsSentence == 3
TicksPerChar == 800000
InterSegmentGap == 2000000
TicksPerSecond == 10000000
PlaceholderChars == 50

(***************************************************************************)
(* Bounds of the model.                                                    *)
(***************************************************************************)
MaxPieces == 5
MaxEvents == 2
MaxMillis == 9
MaxScan == 7

(***************************************************************************)
(* Characters and generic string helpers.                                  *)
(***************************************************************************)
Whitespace == {" ", "\n", "\t"}
SentenceEnd == {".", "?", "!"}
CaptionEnd == {".", "?", "!", ":"}

IsSpace(c) == c \in Whitespace

Rep(c, n) == [i \in 1..n |-> c]

\* sep.join(parts), by halves
RECURSIVE Join(_, _)
Join(sep, parts) ==
    IF parts = <<>> THEN <<>>
    ELSE IF Len(parts) = 1 THEN parts[1]
    ELSE LET h == Len(parts) \div 2
         IN Join(sep, SubSeq(parts, 1, h)) \o sep
                \o Join(sep, SubSeq(parts, h + 1, Len(parts)))

\* the concatenation of a sequence of sequences
Flatten(ss) == Join(<<>>, ss)

\* str.strip(): leading and trailing whitespace removed
strip(s) ==
    IF \A i \in 1..Len(s) : IsSpace(s[i]) THEN <<>>
    ELSE LET lo == CHOOSE i \in 1..Len(s) :
                       ~IsSpace(s[i]) /\ \A k \in 1..(i-1) : IsSpace(s[k])
             back == CHOOSE d \in 0..(Len(s)-1) :
                       ~IsSpace(s[Len(s)-d]) /\ \A e \in 0..(d-1) : IsSpace(s[Len(s)-e])
         IN SubSeq(s, lo, Len(s) - back)

\* str.split(): the maximal runs of non-whitespace characters, in order
WordStarts(s) ==
    {i \in 1..Len(s) : ~IsSpace(s[i]) /\ (i = 1 \/ IsSpace(s[i-1]))}

WordEnd(s, i) ==
    CHOOSE j \in i..Len(s) :
        (j = Len(s) \/ IsSpace(s[j+1])) /\ \A k \in i..j : ~IsSpace(s[k])

RECURSIVE WordsFrom(_, _)
WordsFrom(s, starts) ==
    IF starts = {} THEN <<>>
    ELSE LET i == CHOOSE x \in starts : \A y \in starts : x <= y
         IN <<SubSeq(s, i, WordEnd(s, i))>> \o WordsFrom(s, starts \ {i})

Words(s) == WordsFrom(s, WordStarts(s))

\* whitespace normalisation: " ".join(s.split())
Normalize(s) == Join(<<" ">>, Words(s))

(***************************************************************************)
(* re.split(r'(?<=[.?!])\s+', text): the text is cut at every maximal      *)
(* whitespace run that directly follows '.', '?' or '!'; the run is        *)
(* dropped.  A separator at the very end leaves a trailing empty unit.     *)
(***************************************************************************)
SplitPoints(s) ==
    {i \in 2..Len(s) : IsSpace(s[i]) /\ s[i-1] \in SentenceEnd}

RunEnd(s, i) ==
    CHOOSE j \in i..Len(s) :
        (j = Len(s) \/ ~IsSpace(s[j+1])) /\ \A k \in i..j : IsSpace(s[k])

RECURSIVE SplitFrom(_, _, _)
SplitFrom(s, from, pts) ==
    IF pts = {} THEN <<SubSeq(s, from, Len(s))>>
    ELSE LET i == CHOOSE x \in pts : \A y \in pts : x <= y
         IN <<SubSeq(s, from, i - 1)>>
                \o SplitFrom(s, RunEnd(s, i) + 1, pts \ {i})

re_split(s) == SplitFrom(s, 1, SplitPoints(s))

(***************************************************************************)
(* Decimal formatting: str(n) and f"{n:0w}".                               *)
(***************************************************************************)
DigitChar(d) == <<"0", "1", "2", "3", "4", "5", "6", "7", "8", "9">>[d + 1]

RECURSIVE str(_)
str(n) == IF n < 10 THEN <<DigitChar(n)>>
          ELSE Append(str(n \div 10), DigitChar(n % 10))

Pad(n, w) ==
    LET d == str(n)
    IN IF Len(d) >= w THEN d ELSE Rep("0", w - Len(d)) \o d

(***************************************************************************)
(* format_srt_time (lines 23-30) computes in binary floating point:        *)
(* seconds = ticks / 10_000_000 is the IEEE-754 double nearest to the      *)
(* quotient (53 significant bits, ties to even).  A non-negative double is *)
(* held here as its integer part ip and its fraction bits fb (most         *)
(* significant first), both exact.                                         *)
(***************************************************************************)
RECURSIVE BitLen(_)
BitLen(n) == IF n = 0 THEN 0 ELSE 1 + BitLen(n \div 2)

\* Fractions are produced seven bits at a time (base-128 digits).
\* bit j (1 = most significant) of a sequence of base-128 digits
BitOf(digits, j) ==
    LET d == digits[((j - 1) \div 7) + 1]
        w == <<64, 32, 16, 8, 4, 2, 1>>[((j - 1) % 7) + 1]
    IN (d \div w) % 2

\* the base-128 digit made of bits j+1 .. j+7 of a bit sequence, zeros past
\* its end
DigitOf(bits, j) ==
    LET b(x) == IF x <= Len(bits) THEN bits[x] ELSE 0
    IN 64 * b(j + 1) + 32 * b(j + 2) + 16 * b(j + 3) + 8 * b(j + 4)
           + 4 * b(j + 5) + 2 * b(j + 6) + b(j + 7)

\* the first m base-128 digits of r / TicksPerSecond (0 <= r < TicksPerSecond)
\* and the remainder that is left
RECURSIVE DivDigits(_, _, _)
DivDigits(r, m, acc) ==
    IF m = 0 THEN [digits |-> acc, rem |-> r]
    ELSE DivDigits((r * 128) % TicksPerSecond, m - 1,
                   Append(acc, (r * 128) \div TicksPerSecond))

\* position of the first 1 bit of r / TicksPerSecond, 0 < r < TicksPerSecond
RECURSIVE FirstOne(_)
FirstOne(r) == IF 2 * r >= TicksPerSecond THEN 1 ELSE 1 + FirstOne(2 * r)

\* bits + 1 in the last place: the new bits and the carry out of the first
IncBits(bits) ==
    LET zeros == {j \in 1..Len(bits) : bits[j] = 0}
    IN IF zeros = {} THEN [bits |-> [j \in 1..Len(bits) |-> 0], carry |-> 1]
       ELSE LET z == CHOOSE j \in zeros : \A j2 \in zeros : j2 <= j
            IN [bits |-> [j \in 1..Len(bits) |->
                             IF j < z THEN bits[j] ELSE IF j = z THEN 1 ELSE 0],
                carry |-> 0]

\* the double nearest to ticks / TicksPerSecond
TrueDivide(ticks) ==
    LET q == ticks \div TicksPerSecond
        r == ticks % TicksPerSecond
    IN IF r = 0 THEN [ip |-> q, fb |-> <<>>]
       ELSE LET keep == IF q > 0 THEN 53 - BitLen(q) ELSE 52 + FirstOne(r)
                m == (keep + 7) \div 7
                d == DivDigits(r, m, <<>>)
                kept == [j \in 1..keep |-> BitOf(d.digits, j)]
                guard == BitOf(d.digits, keep + 1) = 1
                sticky == \/ d.rem # 0
                          \/ \E j \in (keep + 2)..(m * 7) :
                                 BitOf(d.digits, j) = 1
                roundUp == guard /\ (sticky \/ kept[keep] = 1)
                up == IncBits(kept)
            IN IF roundUp THEN [ip |-> q + up.carry, fb |-> up.bits]
               ELSE [ip |-> q, fb |-> kept]

\* digits * 1000, from the last digit to the first: the carry out of the
\* first digit and the digits of the product
RECURSIVE MulDigits(_, _, _)
MulDigits(digits, carry, acc) ==
    IF digits = <<>> THEN [int |-> carry, digits |-> acc]
    ELSE LET n == Len(digits)
             v == digits[n] * 1000 + carry
         IN MulDigits(SubSeq(digits, 1, n - 1), v \div 128,
                      <<v % 128>> \o acc)

\* the exact product 0.fb * 1000: integer part and fraction bits
MulThousand(fb) ==
    LET m == (Len(fb) + 7 - 1) \div 7
        p == MulDigits([c \in 1..m |-> DigitOf(fb, (c - 1) * 7)], 0, <<>>)
    IN [int |-> p.int,
        bits |-> [j \in 1..(m * 7) |-> BitOf(p.digits, j)]]

\* int(double(0.fb * 1000)): the product is rounded to 53 significant bits
\* before it is truncated, which carries into the integer part when every
\* kept fraction bit and the first dropped bit are 1
MillisOf(fb) ==
    LET p == MulThousand(fb)
        n == Len(p.bits)
        ones == {j \in 1..n : p.bits[j] = 1}
        keep == IF p.int > 0 THEN 53 - BitLen(p.int)
                ELSE IF ones = {} THEN n
                ELSE 52 + (CHOOSE j \in ones : \A j2 \in ones : j <= j2)
    IN IF n > keep /\ \A j \in 1..(keep + 1) : p.bits[j] = 1
       THEN p.int + 1 ELSE p.int

format_srt_time(ticks) ==
    LET seconds == TrueDivide(ticks)
        hours == seconds.ip \div 3600
        minutes == (seconds.ip % 3600) \div 60
        secs == seconds.ip % 60
        millis == MillisOf(seconds.fb)
    IN Pad(hours, 2) \o <<":">> \o Pad(minutes, 2) \o <<":">> \o Pad(secs, 2)
           \o <<",">> \o Pad(millis, 3)

(***************************************************************************)
(* group_words_to_captions (lines 32-62).                                  *)
(***************************************************************************)
\* line 46; event['text'].strip()[-1] raises IndexError on an empty string
is_end_sentence(event) ==
    LET t == strip(event.text) IN t[Len(t)] \in CaptionEnd

\* line 47
ClosesChunk(chunk, event, max_words) ==
    \/ Len(chunk) >= max_words
    \/ Len(chunk) >= MinWordsSentence /\ is_end_sentence(event)

\* mutant: the caption ends with its first word
MakeCaptionEndsEarly(chunk) ==
    [start |-> chunk[1].offset,
     end |-> chunk[1].offset + chunk[1].duration,
     text |-> Join(<<" ">>, [j \in 1..Len(chunk) |-> chunk[j].text])]

\* lines 48-52 and 57-60
MakeCaption(chunk) ==
    [start |-> chunk[1].offset,
     end |-> chunk[Len(chunk)].offset + chunk[Len(chunk)].duration,
     text |-> Join(<<" ">>, [j \in 1..Len(chunk) |-> chunk[j].text])]

RECURSIVE GroupFrom(_, _, _, _, _)
GroupFrom(events, j, chunk, captions, max_words) ==
    IF j > Len(events)
    THEN IF chunk # <<>> THEN Append(captions, MakeCaption(chunk)) ELSE captions
    ELSE LET grown == Append(chunk, events[j])
         IN IF ClosesChunk(grown, events[j], max_words)
            THEN GroupFrom(events, j + 1, <<>>,
                           Append(captions, MakeCaption(grown)), max_words)
            ELSE GroupFrom(events, j + 1, grown, captions, max_words)

group_words_to_captions(events, max_words) ==
    GroupFrom(events, 1, <<>>, <<>>, max_words)

\* line 46 raises on an event whose text is empty after strip()
GroupingRaises(events) ==
    \E j \in 1..Len(events) : strip(events[j].text) = <<>>

(***************************************************************************)
(* generate_srt_string (lines 64-74).                                      *)
(***************************************************************************)
Arrow == <<" ", "-", "-", ">", " ">>

\* mutant: the blank separator entry is left out
CueLinesNoBlank(n, cap) ==
    << str(n),
       format_srt_time(cap.start) \o Arrow \o format_srt_time(cap.end),
       cap.text >>

\* lines 68-73: the four entries one caption adds to output
CueLines(n, cap) ==
    << str(n),
       format_srt_time(cap.start) \o Arrow \o format_srt_time(cap.end),
       cap.text,
       <<>> >>

\* line 74
JoinLines(output) == Join(<<"\n">>, output)

generate_srt_string(captions) ==
    JoinLines(Flatten([n \in 1..Len(captions) |-> CueLines(n, captions[n])]))

(***************************************************************************)
(* State.                                                                  *)
(***************************************************************************)
VARIABLES
    pc,            \* position in generate_speech / generate_segment
    text,          \* request.text
    raw_segments,  \* result of re.split
    k,             \* index of the next unit of raw_segments to pack
    current,       \* running buffer of the packing loop
    segments,      \* closed segments
    seg_units,     \* per closed segment: <<first, last>> unit index packed in it
    cur_first,     \* index of the first unit held by current
    i,             \* index (1-based) of the segment the for loop of line 151 is at
    attempt,       \* generate_segment: loop variable of line 84
    last_audio,    \* generate_segment: last_audio
    last_events,   \* generate_segment: last_events
    tries,         \* outcomes of the attempts made for the current segment
    seg_audio,     \* value returned by generate_segment: audio
    seg_events,    \* value returned by generate_segment: events
    full_audio,    \* generate_speech: full_audio
    all_events,    \* generate_speech: all_events
    global_offset, \* generate_speech: global_offset
    results,       \* per synthesized segment: the kind of result it returned
    grouped_captions, \* generate_speech: grouped_captions
    response,      \* what generate_speech answers
    rate,          \* request.rate
    pitch,         \* request.pitch
    in_flight,     \* engine calls opened and not yet over
    ticks,         \* format_srt_time: its argument
    formatted,     \* format_srt_time: its result
    scan_events,   \* group_words_to_captions: events
    scan_pos,      \* group_words_to_captions: index of the next event of the loop
    current_chunk, \* group_words_to_captions: current_chunk
    scan_captions, \* group_words_to_captions: captions
    scan_pc        \* group_words_to_captions: "scan", "returned" or "raised"

segVars == <<text, raw_segments, k, current, segments, seg_units, cur_first>>
callVars == <<attempt, last_audio, last_events, tries, in_flight>>
synthVars == <<callVars, seg_audio, seg_events>>
stitchVars == <<full_audio, all_events, global_offset, results>>
finalVars == <<grouped_captions, response>>
reqVars == <<rate, pitch>>
fmtVars == <<ticks, formatted>>
groupVars == <<scan_events, scan_pos, current_chunk, scan_captions, scan_pc>>
pipeVars == <<pc, segVars, i, synthVars, stitchVars, finalVars, reqVars>>

vars == <<pipeVars, fmtVars, groupVars>>

(***************************************************************************)
(* Input texts of the segmentation specification: every concatenation of   *)
(* at most MaxPieces pieces, and a few short texts.  The long piece brings *)
(* units next to the budget and at it, the huge piece is a unit over the   *)
(* budget by itself.                                                       *)
(***************************************************************************)
LongPiece == Rep("a", MaxSegmentChars - 3)
HugePiece == Rep("b", MaxSegmentChars + 1)

Pieces == {<<".">>, <<" ">>, LongPiece, HugePiece}

PieceSeqs(n) == UNION {[1..m -> Pieces] : m \in 1..n}

\* short texts with the other terminals and the other whitespace characters
MixedTexts ==
    { <<"\t">>,
      <<"a", ".", "\n", "\n", "b">>,
      <<"?", "!", " ", "a">>,
      <<"a", "?", "\n", "b", "!", "\t", "c", ".", " ", "d">>,
      <<"\n", "\t", "a", ".", " ", " ", "b", "?", "\n">>,
      <<"a", ".", " ", "b", "!", " ", "c", "?", " ", "d", ":", " ", "e">> }

SegTexts == {Flatten(ps) : ps \in PieceSeqs(MaxPieces)} \cup MixedTexts

\* the locals of generate_speech and generate_segment before their first use
InitLocals ==
    /\ raw_segments = <<>>
    /\ k = 1
    /\ current = <<>>
    /\ segments = <<>>
    /\ seg_units = <<>>
    /\ cur_first = 1
    /\ i = 1
    /\ attempt = 0
    /\ last_audio = <<>>
    /\ last_events = <<>>
    /\ tries = <<>>
    /\ seg_audio = <<>>
    /\ seg_events = <<>>
    /\ full_audio = <<>>
    /\ all_events = <<>>
    /\ global_offset = 0
    /\ results = <<>>
    /\ grouped_captions = <<>>
    /\ response = [status |-> "none"]
    /\ in_flight = {}

InitCommon ==
    /\ pc = "split"
    /\ InitLocals

\* no request is being served
PipeIdle ==
    /\ pc = "idle"
    /\ text = <<>>
    /\ rate = "+0%"
    /\ pitch = "+0Hz"
    /\ InitLocals

\* format_srt_time is not being called
FmtIdle ==
    /\ ticks = 0
    /\ formatted = <<>>

\* group_words_to_captions is not being called by itself
GroupIdle ==
    /\ scan_events = <<>>
    /\ scan_pos = 1
    /\ current_chunk = <<>>
    /\ scan_captions = <<>>
    /\ scan_pc = "idle"

\* lines 20-21: the defaults of TTSRequest
DefaultRate == "+0%"
DefaultPitch == "+0Hz"

\* TTSRequest.text has min_length = 1
InitSeg ==
    /\ text \in SegTexts
    /\ Len(text) >= 1
    /\ rate = DefaultRate
    /\ pitch = DefaultPitch
    /\ InitCommon
    /\ FmtIdle
    /\ GroupIdle

(***************************************************************************)
(* generate_speech, step 1: segmentation (lines 135-144).                  *)
(***************************************************************************)
SplitText ==
    /\ pc = "split"
    /\ raw_segments' = re_split(text)
    /\ pc' = "pack"
    /\ UNCHANGED <<text, k, current, segments, seg_units, cur_first>>
    /\ UNCHANGED <<i, synthVars, stitchVars, finalVars>>
    /\ UNCHANGED <<reqVars, fmtVars, groupVars>>

\* mutant: the budget test lets a buffer reach the budget
FitsBudgetAtLimit(cur, s) == Len(cur) + Len(s) <= MaxSegmentChars

\* the test of line 139
FitsBudget(cur, s) == Len(cur) + Len(s) < MaxSegmentChars

\* line 140
PackAppend ==
    /\ pc = "pack"
    /\ k <= Len(raw_segments)
    /\ FitsBudget(current, raw_segments[k])
    /\ current' = current \o raw_segments[k] \o <<" ">>
    /\ k' = k + 1
    /\ UNCHANGED <<pc, text, raw_segments, segments, seg_units, cur_first>>
    /\ UNCHANGED <<i, synthVars, stitchVars, finalVars>>
    /\ UNCHANGED <<reqVars, fmtVars, groupVars>>

\* mutant: the closing branch forgets to start the new buffer with the unit
PackCloseLosesUnit ==
    /\ pc = "pack"
    /\ k <= Len(raw_segments)
    /\ ~FitsBudget(current, raw_segments[k])
    /\ segments' = Append(segments, strip(current))
    /\ seg_units' = Append(seg_units, <<cur_first, k - 1>>)
    /\ current' = <<" ">>
    /\ cur_first' = k
    /\ k' = k + 1
    /\ UNCHANGED <<pc, text, raw_segments>>
    /\ UNCHANGED <<i, synthVars, stitchVars, finalVars>>
    /\ UNCHANGED <<reqVars, fmtVars, groupVars>>

\* lines 142-143
PackClose ==
    /\ pc = "pack"
    /\ k <= Len(raw_segments)
    /\ ~FitsBudget(current, raw_segments[k])
    /\ segments' = Append(segments, strip(current))
    /\ seg_units' = Append(seg_units, <<cur_first, k - 1>>)
    /\ current' = raw_segments[k] \o <<" ">>
    /\ cur_first' = k
    /\ k' = k + 1
    /\ UNCHANGED <<pc, text, raw_segments>>
    /\ UNCHANGED <<i, synthVars, stitchVars, finalVars>>
    /\ UNCHANGED <<reqVars, fmtVars, groupVars>>

\* line 144
PackFlush ==
    /\ pc = "pack"
    /\ k > Len(raw_segments)
    /\ segments' = IF current # <<>> THEN Append(segments, strip(current))
                   ELSE segments
    /\ seg_units' = IF current # <<>> THEN Append(seg_units, <<cur_first, k - 1>>)
                    ELSE seg_units
    /\ pc' = "loop"
    /\ UNCHANGED <<text, raw_segments, k, current, cur_first>>
    /\ UNCHANGED <<i, synthVars, stitchVars, finalVars>>
    /\ UNCHANGED <<reqVars, fmtVars, groupVars>>

(***************************************************************************)
(* The external engine (edge_tts.Communicate(...).stream()).  One call     *)
(* either raises, or streams audio chunks and WordBoundary events to the   *)
(* end.  The bytes streamed by one call are tagged with the call, so that  *)
(* the audio of different attempts can be told apart.  The events of one   *)
(* response have non-negative offsets and durations, in non-decreasing     *)
(* offset order, relative to the start of the segment.                     *)
(***************************************************************************)
EngineAudio(seg, att) == <<[seg |-> seg, att |-> att]>>

EngineWords ==
    { [delta |-> 0, duration |-> 1000000, text |-> <<"a">>],
      [delta |-> 3000000, duration |-> 0, text |-> <<"b", ".">>] }

RECURSIVE EventsFrom(_, _)
EventsFrom(ws, base) ==
    IF ws = <<>> THEN <<>>
    ELSE LET o == base + Head(ws).delta
         IN <<[offset |-> o, duration |-> Head(ws).duration,
               text |-> Head(ws).text]>> \o EventsFrom(Tail(ws), o)

EngineEventLists ==
    {EventsFrom(ws, 0) : ws \in UNION {[1..n -> EngineWords] : n \in 0..MaxEvents}}

(***************************************************************************)
(* generate_speech, the loop of line 151, and generate_segment.            *)
(***************************************************************************)
\* line 152: if not seg.strip(): continue
SkipEmpty ==
    /\ pc = "loop"
    /\ i <= Len(segments)
    /\ strip(segments[i]) = <<>>
    /\ i' = i + 1
    /\ UNCHANGED <<pc, segVars, synthVars, stitchVars, finalVars>>
    /\ UNCHANGED <<reqVars, fmtVars, groupVars>>

\* line 155, lines 81-82
CallSegment ==
    /\ pc = "loop"
    /\ i <= Len(segments)
    /\ strip(segments[i]) # <<>>
    /\ pc' = "attempt"
    /\ attempt' = 0
    /\ last_audio' = <<>>
    /\ last_events' = <<>>
    /\ tries' = <<>>
    /\ UNCHANGED <<segVars, i, seg_audio, seg_events, stitchVars, finalVars>>
    /\ UNCHANGED in_flight
    /\ UNCHANGED <<reqVars, fmtVars, groupVars>>

\* lines 87-88
SafeRate(r) == IF r # "" THEN r ELSE "+0%"
SafePitch(p) == IF p # "" THEN p ELSE "+0Hz"

\* line 90: the call the engine receives
EngineCall(seg, att, r, p) ==
    [seg |-> seg, att |-> att, rate |-> SafeRate(r), pitch |-> SafePitch(p)]

\* mutant: a call that is over stays in flight
EndCallLeaks(calls, seg, att) == calls

\* lines 94-98, 119: the stream of the call is exhausted, or it raised
EndCall(calls, seg, att) == {c \in calls : ~(c.seg = seg /\ c.att = att)}

\* lines 84-94: the next attempt opens the engine stream
StartAttempt ==
    /\ pc = "attempt"
    /\ attempt <= Retries
    /\ in_flight' = in_flight \cup {EngineCall(i, attempt, rate, pitch)}
    /\ pc' = "stream"
    /\ UNCHANGED <<segVars, i, attempt, last_audio, last_events, tries,
                   seg_audio, seg_events, stitchVars, finalVars>>
    /\ UNCHANGED <<reqVars, fmtVars, groupVars>>

\* mutant: the audio of the attempts piles up instead of being replaced
SavedAudioPilesUp(prev, audio) == prev \o audio

\* line 101: the audio kept from an attempt whose stream ended
SavedAudio(prev, audio) == audio

\* line 106
AudioWithoutTiming(audio, events) == Len(audio) > 0 /\ events = <<>>

\* line 107
MayRetry(att) == att < Retries

\* mutant: the last attempt is not recognised, the error is swallowed
ErrorIsFinalOffByOne(att) == att = Retries + 1

\* mutant: errors have a shorter budget of their own
ErrorIsFinalEarly(att) == att >= Retries - 1

\* line 121
ErrorIsFinal(att) == att = Retries

Kind(audio, events) ==
    IF AudioWithoutTiming(audio, events) THEN "untimed"
    ELSE IF events = <<>> THEN "silent" ELSE "timed"

\* the for loop of line 84 goes on, or is exhausted and line 127 returns
NextAttempt ==
    IF attempt + 1 <= Retries
    THEN /\ attempt' = attempt + 1
         /\ pc' = "attempt"
         /\ UNCHANGED <<seg_audio, seg_events>>
    ELSE /\ attempt' = attempt
         /\ pc' = "returned"
         /\ seg_audio' = last_audio'
         /\ seg_events' = last_events'

\* mutant: a complete result is not returned while attempts are left
AttemptReturnsLate ==
    /\ pc = "stream"
    /\ in_flight' = EndCall(in_flight, i, attempt)
    /\ \E audio \in {<<>>, EngineAudio(i, attempt)}, events \in EngineEventLists :
        /\ ~AudioWithoutTiming(audio, events)
        /\ last_audio' = SavedAudio(last_audio, audio)
        /\ last_events' = events
        /\ tries' = Append(tries, [kind |-> Kind(audio, events), audio |-> audio])
    /\ NextAttempt
    /\ UNCHANGED <<segVars, i, stitchVars, finalVars>>
    /\ UNCHANGED <<reqVars, fmtVars, groupVars>>

\* lines 90-102, 117: the stream ends and the attempt is returned as it is
AttemptReturns ==
    /\ pc = "stream"
    /\ in_flight' = EndCall(in_flight, i, attempt)
    /\ \E audio \in {<<>>, EngineAudio(i, attempt)}, events \in EngineEventLists :
        /\ ~AudioWithoutTiming(audio, events)
        /\ last_audio' = SavedAudio(last_audio, audio)
        /\ last_events' = events
        /\ tries' = Append(tries, [kind |-> Kind(audio, events), audio |-> audio])
    /\ seg_audio' = last_audio'
    /\ seg_events' = last_events'
    /\ pc' = "returned"
    /\ UNCHANGED <<segVars, i, attempt, stitchVars, finalVars>>
    /\ UNCHANGED <<reqVars, fmtVars, groupVars>>

\* lines 106-110: audio without events, attempts left: sleep and try again
AttemptRetries ==
    /\ pc = "stream"
    /\ in_flight' = EndCall(in_flight, i, attempt)
    /\ \E audio \in {EngineAudio(i, attempt)} :
        /\ AudioWithoutTiming(audio, <<>>)
        /\ MayRetry(attempt)
        /\ last_audio' = SavedAudio(last_audio, audio)
        /\ last_events' = <<>>
        /\ tries' = Append(tries, [kind |-> "untimed", audio |-> audio])
    /\ NextAttempt
    /\ UNCHANGED <<segVars, i, stitchVars, finalVars>>
    /\ UNCHANGED <<reqVars, fmtVars, groupVars>>

\* lines 111-114: audio without events on the last attempt
AttemptGivesUp ==
    /\ pc = "stream"
    /\ in_flight' = EndCall(in_flight, i, attempt)
    /\ \E audio \in {EngineAudio(i, attempt)} :
        /\ AudioWithoutTiming(audio, <<>>)
        /\ ~MayRetry(attempt)
        /\ last_audio' = SavedAudio(last_audio, audio)
        /\ last_events' = <<>>
        /\ tries' = Append(tries, [kind |-> "untimed", audio |-> audio])
    /\ seg_audio' = last_audio'
    /\ seg_events' = <<>>
    /\ pc' = "returned"
    /\ UNCHANGED <<segVars, i, attempt, stitchVars, finalVars>>
    /\ UNCHANGED <<reqVars, fmtVars, groupVars>>

\* lines 119-124: the engine raises, attempts left: sleep and try again
AttemptErrorRetries ==
    /\ pc = "stream"
    /\ in_flight' = EndCall(in_flight, i, attempt)
    /\ ~ErrorIsFinal(attempt)
    /\ tries' = Append(tries, [kind |-> "raise", audio |-> <<>>])
    /\ UNCHANGED <<last_audio, last_events>>
    /\ NextAttempt
    /\ UNCHANGED <<segVars, i, stitchVars, finalVars>>
    /\ UNCHANGED <<reqVars, fmtVars, groupVars>>

\* lines 121-123, 206-208: the engine raises on the last attempt; the error
\* leaves generate_segment and generate_speech answers HTTP 500
AttemptErrorRaises ==
    /\ pc = "stream"
    /\ in_flight' = EndCall(in_flight, i, attempt)
    /\ ErrorIsFinal(attempt)
    /\ tries' = Append(tries, [kind |-> "raise", audio |-> <<>>])
    /\ response' = [status |-> "error", code |-> 500]
    /\ pc' = "error"
    /\ UNCHANGED <<segVars, i, attempt, last_audio, last_events,
                   seg_audio, seg_events, stitchVars, grouped_captions>>
    /\ UNCHANGED <<reqVars, fmtVars, groupVars>>

(***************************************************************************)
(* generate_speech, lines 157-182: stitching.                              *)
(***************************************************************************)
\* mutant: the event keeps its segment-relative offset
RebaseForgotten(e, g) == e

\* line 163
Rebase(e, g) == [e EXCEPT !.offset = @ + g]

\* mutant: the next segment starts right at the end of the last word
OffsetAfterTimedNoGap(last) == last.offset + last.duration

\* lines 166-167; last is the last event, already rebased in place
OffsetAfterTimed(last) == last.offset + last.duration + InterSegmentGap

\* mutant: the estimate counts words instead of characters
EstimatedDurationPerWord(seg) == Len(Words(seg)) * TicksPerChar

\* line 174
EstimatedDuration(seg) == Len(seg) * TicksPerChar

\* lines 177-181
FallbackEvents(seg, g) ==
    <<[offset |-> g, duration |-> EstimatedDuration(seg), text |-> seg]>>

\* line 182
OffsetAfterFallback(seg, g) == g + EstimatedDuration(seg)

\* generate_segment has returned: its locals are gone
CallOver ==
    /\ attempt' = 0
    /\ last_audio' = <<>>
    /\ last_events' = <<>>
    /\ tries' = <<>>
    /\ UNCHANGED in_flight

\* lines 158, 161-167; the events are rebased in place
StitchTimed ==
    /\ pc = "returned"
    /\ seg_events # <<>>
    /\ full_audio' = full_audio \o seg_audio
    /\ seg_events' = [j \in 1..Len(seg_events) |->
                         Rebase(seg_events[j], global_offset)]
    /\ all_events' = all_events \o seg_events'
    /\ global_offset' = OffsetAfterTimed(seg_events'[Len(seg_events')])
    /\ results' = Append(results, tries[Len(tries)].kind)
    /\ CallOver
    /\ i' = i + 1
    /\ pc' = "loop"
    /\ UNCHANGED <<segVars, seg_audio, finalVars>>
    /\ UNCHANGED <<reqVars, fmtVars, groupVars>>

\* lines 158, 168-182
StitchFallback ==
    /\ pc = "returned"
    /\ seg_events = <<>>
    /\ full_audio' = full_audio \o seg_audio
    /\ all_events' = all_events \o FallbackEvents(segments[i], global_offset)
    /\ global_offset' = OffsetAfterFallback(segments[i], global_offset)
    /\ results' = Append(results, tries[Len(tries)].kind)
    /\ CallOver
    /\ i' = i + 1
    /\ pc' = "loop"
    /\ UNCHANGED <<segVars, seg_audio, seg_events, finalVars>>
    /\ UNCHANGED <<reqVars, fmtVars, groupVars>>

(***************************************************************************)
(* generate_speech, lines 184-208: grouping, serialisation, response.      *)
(* The response holds the audio and the subtitle text as they are before   *)
(* the base64 transport encoding.                                          *)
(***************************************************************************)
\* line 192: f"1\n00:00:00,000 --> 00:00:10,000\n{request.text[:50]}..."
Placeholder(t) ==
    <<"1", "\n">>
        \o <<"0", "0", ":", "0", "0", ":", "0", "0", ",", "0", "0", "0">>
        \o Arrow
        \o <<"0", "0", ":", "0", "0", ":", "1", "0", ",", "0", "0", "0">>
        \o <<"\n">>
        \o SubSeq(t, 1, IF Len(t) < PlaceholderChars THEN Len(t) ELSE PlaceholderChars)
        \o <<".", ".", ".">>

\* mutant: the empty subtitle text is returned as it is
SrtContentNoPlaceholder(captions, t) == generate_srt_string(captions)

\* lines 188-192
SrtContent(captions, t) ==
    LET srt_content == generate_srt_string(captions)
    IN IF srt_content = <<>> THEN Placeholder(t) ELSE srt_content

Finish ==
    /\ pc = "loop"
    /\ i > Len(segments)
    /\ IF GroupingRaises(all_events)
       THEN /\ response' = [status |-> "error", code |-> 500]
            /\ pc' = "error"
            /\ UNCHANGED grouped_captions
       ELSE /\ grouped_captions' = group_words_to_captions(all_events, MaxWords)
            /\ response' = [status |-> "success",
                            audio |-> full_audio,
                            srt |-> SrtContent(grouped_captions', text),
                            chunks |-> Len(segments)]
            /\ pc' = "done"
    /\ UNCHANGED <<segVars, i, synthVars, stitchVars>>
    /\ UNCHANGED <<reqVars, fmtVars, groupVars>>

(***************************************************************************)
(* Requests of the pipeline specification.                                 *)
(***************************************************************************)
\* a sentence of 999 characters and one of 1000
Sentence999 == Rep("a", MaxSegmentChars - 2) \o <<".">>
Sentence1000 == Rep("a", MaxSegmentChars - 1) \o <<".">>

Texts ==
    { <<" ">>,
      <<"H", "i">>,
      <<"a", " ", "b", " ", "c", " ", "d", " ", "e", " ", "f", " ", "g", ".">>,
      <<"O", "n", "e", ".", " ", "T", "w", "o", " ", "t", "w", "o", ".">>,
      Sentence999 \o <<" ">> \o <<"b", " ", "c", ".">>,
      Sentence1000 \o <<"\n", "b", ".">>,
      <<"H", "i", "!", " ">> \o Sentence1000 }

\* rate and pitch as a client may send them: empty, neutral, or an adjustment
Rates == {"", "+0%", "+10%"}
Pitches == {"", "+0Hz", "-5Hz"}

Requests ==
    {[text |-> t, rate |-> DefaultRate, pitch |-> DefaultPitch] : t \in Texts}
        \cup {[text |-> <<"H", "i">>, rate |-> r, pitch |-> p] :
                  r \in Rates, p \in Pitches}

Init ==
    /\ \E request \in Requests :
           /\ text = request.text
           /\ rate = request.rate
           /\ pitch = request.pitch
    /\ InitCommon
    /\ FmtIdle
    /\ GroupIdle

Next ==
    \/ SplitText
    \/ PackAppend
    \/ PackClose
    \/ PackFlush
    \/ SkipEmpty
    \/ CallSegment
    \/ StartAttempt
    \/ AttemptReturns
    \/ AttemptRetries
    \/ AttemptGivesUp
    \/ AttemptErrorRetries
    \/ AttemptErrorRaises
    \/ StitchTimed
    \/ StitchFallback
    \/ Finish

Spec == Init /\ [][Next]_vars

\* the end of an engine call, whichever way generate_segment goes on from it
AttemptEnds ==
    \/ AttemptReturns
    \/ AttemptRetries
    \/ AttemptGivesUp
    \/ AttemptErrorRetries
    \/ AttemptErrorRaises

\* Every engine call has an outcome (its stream is exhausted or it raises),
\* and the event loop resumes generate_segment after the sleep of lines 109
\* and 124, so an attempt that can start does start and one that is in
\* flight ends.
SpecLive == Spec /\ WF_vars(StartAttempt) /\ WF_vars(AttemptEnds)

NextSeg == SplitText \/ PackAppend \/ PackClose \/ PackFlush

SpecSeg == InitSeg /\ [][NextSeg]_vars

(***************************************************************************)
(* format_srt_time by itself: tick counts around second and minute         *)
(* boundaries, with the first and the last milliseconds of a second and    *)
(* sub-millisecond remainders.                                             *)
(***************************************************************************)
TickInputs ==
    { sec * TicksPerSecond + ms * (TicksPerSecond \div 1000) + sub :
          sec \in {0, 1, 59, 60, 61, 119, 200},
          ms \in (0..MaxMillis) \cup {999 - x : x \in 0..MaxMillis},
          sub \in {0, 1, 9999} }

InitFmt ==
    /\ ticks \in TickInputs
    /\ formatted = <<>>
    /\ PipeIdle
    /\ GroupIdle

\* lines 23-30
FormatTime ==
    /\ formatted = <<>>
    /\ formatted' = format_srt_time(ticks)
    /\ UNCHANGED <<ticks, pipeVars, groupVars>>

NextFmt == FormatTime

SpecFmt == InitFmt /\ [][NextFmt]_vars

(***************************************************************************)
(* group_words_to_captions by itself, one iteration of its loop per step.  *)
(* The event lists hold plain words, words that end a sentence (with       *)
(* whitespace around them, as strip() is applied) and events whose text is *)
(* only whitespace.                                                        *)
(***************************************************************************)
ScanTexts == {<<"a">>, <<"b", ":", " ">>, <<" ">>}

\* event n of a list starts n seconds in and lasts half a second
ScanEvent(n, t) ==
    [offset |-> n * TicksPerSecond, duration |-> TicksPerSecond \div 2, text |-> t]

ScanLists ==
    UNION {{[n \in 1..m |-> ScanEvent(n, ts[n])] : ts \in [1..m -> ScanTexts]} :
              m \in 0..MaxScan}

InitGroup ==
    /\ scan_events \in ScanLists
    /\ scan_pos = 1
    /\ current_chunk = <<>>
    /\ scan_captions = <<>>
    /\ scan_pc = "scan"
    /\ PipeIdle
    /\ FmtIdle

\* lines 42-47: the event is appended and the chunk stays open
GroupKeep ==
    /\ scan_pc = "scan"
    /\ scan_pos <= Len(scan_events)
    /\ ~GroupingRaises(<<scan_events[scan_pos]>>)
    /\ LET grown == Append(current_chunk, scan_events[scan_pos])
       IN /\ ~ClosesChunk(grown, scan_events[scan_pos], MaxWords)
          /\ current_chunk' = grown
    /\ scan_pos' = scan_pos + 1
    /\ UNCHANGED <<scan_events, scan_captions, scan_pc, pipeVars, fmtVars>>

\* lines 42-53: the event is appended and the chunk is closed
GroupClose ==
    /\ scan_pc = "scan"
    /\ scan_pos <= Len(scan_events)
    /\ ~GroupingRaises(<<scan_events[scan_pos]>>)
    /\ LET grown == Append(current_chunk, scan_events[scan_pos])
       IN /\ ClosesChunk(grown, scan_events[scan_pos], MaxWords)
          /\ scan_captions' = Append(scan_captions, MakeCaption(grown))
    /\ current_chunk' = <<>>
    /\ scan_pos' = scan_pos + 1
    /\ UNCHANGED <<scan_events, scan_pc, pipeVars, fmtVars>>

\* lines 43, 46: event['text'].strip()[-1] raises IndexError
GroupRaise ==
    /\ scan_pc = "scan"
    /\ scan_pos <= Len(scan_events)
    /\ GroupingRaises(<<scan_events[scan_pos]>>)
    /\ current_chunk' = Append(current_chunk, scan_events[scan_pos])
    /\ scan_pc' = "raised"
    /\ UNCHANGED <<scan_events, scan_pos, scan_captions, pipeVars, fmtVars>>

\* lines 36-37 and 55-62
GroupReturn ==
    /\ scan_pc = "scan"
    /\ scan_pos > Len(scan_events)
    /\ scan_captions' = IF current_chunk # <<>>
                        THEN Append(scan_captions, MakeCaption(current_chunk))
                        ELSE scan_captions
    /\ scan_pc' = "returned"
    /\ UNCHANGED <<scan_events, scan_pos, current_chunk, pipeVars, fmtVars>>

NextGroup == GroupKeep \/ GroupClose \/ GroupRaise \/ GroupReturn

SpecGroup == InitGroup /\ [][NextGroup]_vars

(***************************************************************************)
(* Segmentation claims.                                                    *)
(***************************************************************************)
Segmented == pc = "loop"

UnitCount(n) == seg_units[n][2] - seg_units[n][1] + 1

\* C6: joining the segments with single spaces and normalising whitespace
\* gives the whitespace-normalised input text (no word lost, duplicated or
\* reordered).
C6_RoundTrip ==
    Segmented => Normalize(Join(<<" ">>, segments)) = Normalize(text)

\* a run that closed at least two segments from a text whose whitespace is
\* not already normalised
C6_Witness ==
    /\ Segmented
    /\ Len(segments) >= 2
    /\ \E n \in 1..Len(segments) : UnitCount(n) >= 2
    /\ Normalize(text) # text

\* C7: the segment sequence holds no empty or whitespace-only segment.
C7_NoEmptySegment ==
    Segmented => \A n \in 1..Len(segments) : strip(segments[n]) # <<>>

\* C8: a segment packed from two or more units is shorter than the budget
\* after trimming; a segment at or over the budget is exactly one unit, kept
\* whole; a unit at or over the budget shares its segment with no other unit.
C8_BudgetRespected ==
    Segmented =>
        \A n \in 1..Len(segments) :
            /\ UnitCount(n) >= 2 => Len(strip(segments[n])) < MaxSegmentChars
            /\ Len(strip(segments[n])) >= MaxSegmentChars =>
                   /\ UnitCount(n) = 1
                   /\ segments[n] = strip(raw_segments[seg_units[n][1]])
            /\ \A u \in seg_units[n][1]..seg_units[n][2] :
                   Len(raw_segments[u]) >= MaxSegmentChars => UnitCount(n) = 1

\* a run with a segment packed from two units and a unit over the budget
C8_Witness ==
    /\ Segmented
    /\ \E n \in 1..Len(segments) : UnitCount(n) >= 2 /\ segments[n] # <<>>
    /\ \E m \in 1..Len(segments) : Len(segments[m]) >= MaxSegmentChars

(***************************************************************************)
(* Pipeline claims.                                                        *)
(***************************************************************************)
\* C1: the offsets of all_events are non-decreasing after every segment,
\* whatever mix of rebased engine events and fallback events it holds, and
\* global_offset never decreases.
C1_MonotoneTimeline ==
    /\ [](\A j \in 1..(Len(all_events) - 1) :
              all_events[j].offset <= all_events[j + 1].offset)
    /\ [][global_offset' >= global_offset]_vars

\* a finished run that stitched a segment with engine events after a
\* fallback segment
C1_Witness ==
    /\ pc = "done"
    /\ Len(results) >= 2
    /\ results[1] # "timed"
    /\ results[2] = "timed"
    /\ Len(all_events) >= 3

EveryAttemptRaised ==
    /\ Len(tries) = Retries + 1
    /\ \A j \in 1..Len(tries) : tries[j].kind = "raise"

\* C2: when the engine raises on the initial call and on every retry for a
\* segment, the error leaves generate_segment, generate_speech answers with
\* an error, and the answer carries no audio and no subtitle, neither those
\* of the failed segment nor those stitched from earlier segments.
C2_ExhaustedErrorFailsRun ==
    EveryAttemptRaised =>
        /\ pc = "error"
        /\ response.status = "error"
        /\ "audio" \notin DOMAIN response
        /\ "srt" \notin DOMAIN response

\* a run that fails on a later segment, with audio and events already stitched
C2_Witness ==
    /\ EveryAttemptRaised
    /\ pc = "error"
    /\ full_audio # <<>>
    /\ all_events # <<>>

EveryAttemptUntimed ==
    /\ Len(tries) = Retries + 1
    /\ \A j \in 1..Len(tries) : tries[j].kind = "untimed"

\* C3: when every attempt for a segment yields audio and no events,
\* generate_segment returns the audio of the last attempt alone with an empty
\* event list; the run is not in error, goes on to the next segment, and a
\* run ends in error only on an attempt that raised.
C3_UntimedSegmentDoesNotFail ==
    /\ [](/\ EveryAttemptUntimed =>
                /\ pc = "returned"
                /\ seg_audio = EngineAudio(i, Retries)
                /\ seg_audio = tries[Retries + 1].audio
                /\ seg_events = <<>>
          /\ pc = "error" =>
                /\ tries # <<>>
                /\ tries[Len(tries)].kind = "raise"
          /\ pc = "done" => response.status = "success")
    /\ [][EveryAttemptUntimed =>
              /\ pc' = "loop"
              /\ i' = i + 1
              /\ full_audio' = full_audio \o EngineAudio(i, Retries)]_vars

\* every attempt of a segment that is not the last one gave audio without
\* events
C3_Witness ==
    /\ EveryAttemptUntimed
    /\ pc = "returned"
    /\ i < Len(segments)

\* the share of a word of length n in an estimated duration est spread over
\* total characters, rounded down
Share(est, n, total) ==
    (est \div total) * n + ((est % total) * n) \div total

WordChars(ws) == Len(Flatten(ws))

\* C4: for a segment that returned no events, one synthetic event per word
\* of the segment text is appended, the duration of each being its share of
\* the estimated duration in proportion to the length of the word.
C4_FallbackPerWord ==
    [][(pc = "returned" /\ seg_events = <<>> /\ pc' = "loop") =>
          LET ws == Words(segments[i])
              added == SubSeq(all_events', Len(all_events) + 1, Len(all_events'))
              est == EstimatedDuration(segments[i])
          IN /\ Len(added) = Len(ws)
             /\ \A j \in 1..Len(ws) :
                   /\ added[j].text = ws[j]
                   /\ added[j].duration - Share(est, Len(ws[j]), WordChars(ws))
                          \in {0, 1}]_vars

\* C5: no caption of a run holds more than MaxWords words, counting the
\* words of its text.
C5_CaptionWordLimit ==
    pc = "done" =>
        \A n \in 1..Len(grouped_captions) :
            Len(Words(grouped_captions[n].text)) <= MaxWords

\* the cue the claim describes: index, time line, text, blank line
CueBlock(n, cap) ==
    str(n) \o <<"\n">>
        \o format_srt_time(cap.start) \o Arrow \o format_srt_time(cap.end)
        \o <<"\n">> \o cap.text \o <<"\n">> \o <<"\n">>

CueBlocks(captions) ==
    Flatten([n \in 1..Len(captions) |-> CueBlock(n, captions[n])])

\* C9 as stated: generate_srt_string returns the concatenation of the cue
\* blocks, every cue, the last one too, followed by a blank line.
C9_EveryCueEndsBlank ==
    pc = "done" =>
        generate_srt_string(grouped_captions) = CueBlocks(grouped_captions)

\* C9 as amended: generate_srt_string returns the concatenation of the cue
\* blocks without its final newline (the last cue ends with one newline and
\* no blank line); for no caption it returns the empty string.
C9_CuesJoinedByBlank ==
    pc = "done" =>
        LET blocks == CueBlocks(grouped_captions)
        IN generate_srt_string(grouped_captions) =
               IF grouped_captions = <<>> THEN <<>>
               ELSE SubSeq(blocks, 1, Len(blocks) - 1)

\* a finished run with at least two captions
C9_Witness ==
    /\ pc = "done"
    /\ Len(grouped_captions) >= 2

\* C10: a successful response carries a non-empty subtitle text; with no
\* caption it carries the placeholder cue.
C10_SubtitleNeverEmpty ==
    response.status = "success" =>
        /\ response.srt # <<>>
        /\ grouped_captions = <<>> =>
               response.srt = Placeholder(text)

\* a successful run in which every segment was empty and skipped
C10_Witness ==
    /\ pc = "done"
    /\ response.status = "success"
    /\ grouped_captions = <<>>
    /\ segments # <<>>
    /\ response.srt = Placeholder(text)

(***************************************************************************)
(* Scheduling and stitching claims.                                        *)
(***************************************************************************)
\* C12: the engine calls of a request are made one after another in segment
\* order: at most one call is in flight, it is the current attempt of the
\* current segment, a call starts only when none is in flight, and the loop
\* moves to the next segment only when no call is in flight, so every
\* attempt for a segment is over before the first attempt for the next one
\* starts.
C12_SequentialCalls ==
    /\ [](/\ Cardinality(in_flight) <= 1
          /\ \A c \in in_flight :
                 /\ pc = "stream"
                 /\ c.seg = i
                 /\ c.att = attempt)
    /\ [][/\ (in_flight' # in_flight /\ in_flight' # {}) => in_flight = {}
          /\ i' # i => /\ i' = i + 1
                        /\ in_flight = {}
                        /\ in_flight' = {}
          /\ (pc = "stream" /\ pc' = "attempt") => /\ attempt' = attempt + 1
                                                    /\ i' = i]_vars

\* a retry in flight for a segment that follows a synthesized segment
C12_Witness ==
    /\ pc = "stream"
    /\ in_flight # {}
    /\ results # <<>>
    /\ attempt >= 1
    /\ Len(tries) = attempt

InSegmentCall == pc \in {"attempt", "stream"}

SegmentCallOver == pc \in {"returned", "error"}

\* engine calls made so far for the current segment
CallsMade == Len(tries) + Cardinality(in_flight)

\* C16: an attempt that yields audio and events is returned as it is and no
\* further engine call is made for the segment; at most Retries + 1 engine
\* calls are made per segment, after the last of which generate_segment has
\* returned or raised; and every call of generate_segment ends by returning
\* or raising.
C16_ReturnsAtOnceAndTerminates ==
    /\ [](/\ CallsMade <= Retries + 1
          /\ Len(tries) = Retries + 1 => SegmentCallOver
          /\ (tries # <<>> /\ tries[Len(tries)].kind = "timed") =>
                 /\ pc = "returned"
                 /\ in_flight = {}
                 /\ seg_audio = tries[Len(tries)].audio
                 /\ seg_events = last_events
                 /\ seg_events # <<>>)
    /\ [][pc = "returned" => (pc' = "loop" /\ i' = i + 1 /\ in_flight' = {})]_vars
    /\ (InSegmentCall ~> SegmentCallOver)

\* the second attempt for a segment gave audio and events, after a first
\* attempt without events
C16_Witness ==
    /\ pc = "returned"
    /\ Len(tries) = 2
    /\ tries[1].kind = "untimed"
    /\ tries[2].kind = "timed"
    /\ tries[2].audio # <<>>
    /\ seg_audio = tries[2].audio

\* C20: errors and audio-without-timing outcomes share the attempt counter:
\* generate_segment raises exactly when its last permitted attempt (number
\* Retries + 1) raises, whatever the earlier attempts gave; the audio of an
\* earlier attempt is then dropped, and an error on an earlier attempt
\* followed by an attempt that does not raise gives a normal result.
C20_RaisesIffLastAttemptRaises ==
    /\ pc = "error" =>
           /\ Len(tries) = Retries + 1
           /\ tries[Retries + 1].kind = "raise"
           /\ "audio" \notin DOMAIN response
    /\ (Len(tries) = Retries + 1 /\ tries[Retries + 1].kind = "raise") =>
           pc = "error"
    /\ (tries # <<>> /\ tries[Len(tries)].kind = "raise" /\ Len(tries) <= Retries) =>
           InSegmentCall
    /\ pc = "returned" =>
           /\ tries # <<>>
           /\ tries[Len(tries)].kind # "raise"
           /\ \A j \in 1..(Len(tries) - 1) : tries[j].kind \in {"raise", "untimed"}
           /\ seg_audio = tries[Len(tries)].audio

\* the two kinds interleaved, ending in a raise: audio was obtained and is lost
C20_Witness ==
    /\ pc = "error"
    /\ Len(tries) = Retries + 1
    /\ tries[1].kind = "untimed"
    /\ tries[2].kind = "raise"
    /\ tries[3].kind = "raise"

StitchesTimed == pc = "returned" /\ seg_events # <<>> /\ pc' = "loop"

StitchesFallback == pc = "returned" /\ seg_events = <<>> /\ pc' = "loop"

\* the events a stitching step appends to all_events
Added == SubSeq(all_events', Len(all_events) + 1, Len(all_events'))

\* C13: for a segment that returned events, with G the global offset before
\* it, every event is appended with offset = its segment-relative offset + G,
\* the events stitched before are left as they are, and the global offset
\* becomes (relative offset of the last event + G + its duration) + 2,000,000.
C13_TimedRebasedOnce ==
    [][StitchesTimed =>
          LET G == global_offset
              n == Len(seg_events)
          IN /\ Len(Added) = n
             /\ \A j \in 1..n :
                    /\ Added[j].offset = seg_events[j].offset + G
                    /\ Added[j].duration = seg_events[j].duration
                    /\ Added[j].text = seg_events[j].text
             /\ SubSeq(all_events', 1, Len(all_events)) = all_events
             /\ global_offset' =
                    (seg_events[n].offset + G + seg_events[n].duration)
                        + InterSegmentGap]_vars

\* two segments with engine events have been stitched, the second one at a
\* global offset that is not zero
C13_Witness ==
    /\ pc = "loop"
    /\ results = <<"timed", "timed">>
    /\ Len(all_events) >= 3
    /\ all_events[Len(all_events)].offset > InterSegmentGap

\* C14: after a segment that returned no events, the global offset is
\* advanced by the estimated duration of the segment plus the inter-segment
\* gap.
C14_FallbackAddsGap ==
    [][StitchesFallback =>
          global_offset' = global_offset + EstimatedDuration(segments[i])
                               + InterSegmentGap]_vars

RECURSIVE TotalDuration(_)
TotalDuration(es) ==
    IF es = <<>> THEN 0 ELSE Head(es).duration + TotalDuration(Tail(es))

\* C15: for a segment that returned no events, the synthetic timing that is
\* appended starts at the global offset of that moment and lasts, in total,
\* the number of characters of the trimmed segment text times 800,000 ticks;
\* for a segment of one word it is one event, for 'Hi' one event of
\* 1,600,000 ticks.
C15_FallbackEstimate ==
    [][StitchesFallback =>
          LET seg == strip(segments[i])
          IN /\ Added # <<>>
             /\ Added[1].offset = global_offset
             /\ TotalDuration(Added) = Len(seg) * TicksPerChar
             /\ SubSeq(all_events', 1, Len(all_events)) = all_events
             /\ Len(Words(seg)) = 1 => Len(Added) = 1
             /\ seg = <<"H", "i">> =>
                    Added = <<[offset |-> global_offset, duration |-> 1600000,
                               text |-> <<"H", "i">>]>>]_vars

\* the segment 'Hi' has been stitched from its estimate
C15_Witness ==
    /\ pc = "loop"
    /\ segments = <<(<<"H", "i">>)>>
    /\ results # <<>>
    /\ all_events = <<[offset |-> 0, duration |-> 1600000, text |-> <<"H", "i">>]>>

\* C19: no engine call receives the neutral values '+0%' as rate or '+0Hz'
\* as pitch; neutral or empty settings reach the engine as no adjustment.
C19_NeutralNotPassed ==
    \A c \in in_flight : c.rate # "+0%" /\ c.pitch # "+0Hz"

(***************************************************************************)
(* Caption grouping claims.                                                *)
(***************************************************************************)
\* the caption of a group of events
CaptionOf(group) ==
    [start |-> group[1].offset,
     end |-> group[Len(group)].offset + group[Len(group)].duration,
     text |-> Join(<<" ">>, [n \in 1..Len(group) |-> group[n].text])]

\* the trimmed text ends in '.', '?', '!' or ':'
EndsSentence(t) ==
    LET trimmed == strip(t)
    IN trimmed # <<>> /\ trimmed[Len(trimmed)] \in {".", "?", "!", ":"}

\* the group that holds the event just added is to be closed
MustClose(group) ==
    \/ Len(group) = MaxWords
    \/ Len(group) >= 3 /\ EndsSentence(group[Len(group)].text)

Scanning == scan_pc = "scan" /\ scan_pos <= Len(scan_events)

AtEndOfInput == scan_pc = "scan" /\ scan_pos > Len(scan_events)

\* C17: scanning the events in order, the current group is closed exactly
\* when its size reaches max_words, or when its size is at least 3 and the
\* trimmed text of the event just added ends in '.', '?', '!' or ':'; it is
\* never closed otherwise; a non-empty remainder at the end of the input is
\* emitted as the last caption, and an empty input gives no caption.
C17_ClosesExactlyWhen ==
    /\ [][Scanning =>
              LET group == Append(current_chunk, scan_events[scan_pos])
              IN /\ scan_pos' = scan_pos + 1
                 /\ scan_pc' = "scan"
                 /\ IF MustClose(group)
                    THEN /\ scan_captions' = Append(scan_captions, CaptionOf(group))
                         /\ current_chunk' = <<>>
                    ELSE /\ scan_captions' = scan_captions
                         /\ current_chunk' = group]_vars
    /\ [][AtEndOfInput =>
              /\ scan_pc' = "returned"
              /\ scan_captions' =
                     IF current_chunk # <<>>
                     THEN Append(scan_captions, CaptionOf(current_chunk))
                     ELSE scan_captions
              /\ scan_events = <<>> => scan_captions' = <<>>]_vars

\* the n-th smallest element of a set of numbers
NthOf(S, n) == CHOOSE e \in S : Cardinality({x \in S : x <= e}) = n

\* the captions are those of the consecutive groups of events that end at
\* the positions of ends, the last of which is the last event
GroupedAt(captions, events, ends) ==
    /\ Cardinality(ends) = Len(captions)
    /\ events # <<>> => Len(events) \in ends
    /\ \A n \in 1..Len(captions) :
           LET first == IF n = 1 THEN 1 ELSE NthOf(ends, n - 1) + 1
           IN captions[n] = CaptionOf(SubSeq(events, first, NthOf(ends, n)))

\* C18: the captions of a run partition all_events into consecutive
\* non-empty groups, in order: the text of a caption is the space-joined
\* texts of its events, its start the offset of its first event, its end the
\* offset plus the duration of its last event, and its end is not before its
\* start.
C18_CaptionsPartitionEvents ==
    pc = "done" =>
        /\ \E ends \in SUBSET (1..Len(all_events)) :
               GroupedAt(grouped_captions, all_events, ends)
        /\ \A n \in 1..Len(grouped_captions) :
               grouped_captions[n].end >= grouped_captions[n].start

\* a finished run with two captions, one of them of several events
C18_Witness ==
    /\ pc = "done"
    /\ Len(grouped_captions) = 2
    /\ Len(all_events) >= 4
    /\ results = <<"timed", "timed">>

(***************************************************************************)
(* format_srt_time claims.                                                 *)
(***************************************************************************)
\* HH:MM:SS,mmm computed in integers, sub-millisecond remainders dropped;
\* t div (60 * 10^7) is taken as (t div 10^7) div 60, which is the same number
TruncatedTime(t) ==
    LET totalMillis == t \div (TicksPerSecond \div 1000)
        totalSeconds == t \div TicksPerSecond
    IN Pad(totalSeconds \div 3600, 2) \o <<":">>
           \o Pad((totalSeconds \div 60) % 60, 2) \o <<":">>
           \o Pad(totalSeconds % 60, 2) \o <<",">>
           \o Pad(totalMillis % 1000, 3)

\* C11: for every non-negative tick count t, format_srt_time(t) is
\* HH:MM:SS,mmm with the total milliseconds t div 10000 truncated, mmm that
\* value mod 1000, SS = (t div 10^7) mod 60, MM = (t div (60*10^7)) mod 60
\* and HH = t div (3600*10^7).
C11_TruncatedMillis ==
    formatted # <<>> => formatted = TruncatedTime(ticks)

=============================================================================
